---- MODULE Spec2Model ----
(***************************************************************************)
(* The basketball game of web-hoop: the Game state machine (handleSwipe,   *)
(* update, checkForBasket, checkBallState, the deferred reset callbacks    *)
(* and testShot), the InputManager gesture handlers, and the Hoop basket   *)
(* predicate.                                                              *)
(*                                                                         *)
(* Units: positions in millimetres, velocities in mm/s, forces in          *)
(* thousandths of the source's unit, time in milliseconds, screen points   *)
(* in pixels.  The physics engine is an external collaborator: each        *)
(* physics step hands the game one of a fixed set of position/velocity     *)
(* samples.                                                                *)
(***************************************************************************)
EXTENDS Integers, Sequences, FiniteSets, TLC

VARIABLES
    started,            \* main: the DOMContentLoaded handler has run
    isInitialized,      \* Game.isInitialized
    loading,            \* PhysicsLoader callbacks not yet invoked
    frames,             \* animation frames requested and not yet run
    gameState,          \* Game.gameState
    pendingReset,       \* Game.pendingReset
    score,              \* Game.score
    streak,             \* Game.streak
    highScore,          \* Game.highScore
    shotAge,            \* Date.now() - Game.shotStartTime, saturating
    basketball,         \* Game.basketball: the ball's record, exists = FALSE for null
    hoop,               \* Game.hoop: the hoop's record, exists = FALSE for null
    renderer,           \* Game.scene, camera and renderer are set (initGraphics), not null
    physics,            \* Game.physics is set, not null
    clockStarted,       \* Game.clock is running: an update has called getDelta
    bodyIsMesh,         \* the physics engine in use keeps body.position and mesh.position
                        \* as one vector; otherwise a physics step copies body to mesh
    animationFramePending, \* Game.animationFrameId names a frame request still pending
    trajectoryVisible,  \* InputManager.trajectoryLine.visible
    timers,             \* scheduled callbacks not yet fired, in scheduling order
    storedHighScore,    \* localStorage["basketballHighScore"], <<>> when absent
    uncaught,           \* the last callback or call that can throw ended in an
                        \* exception that nothing caught
    startPoint,         \* InputManager.startPoint
    endPoint,           \* InputManager.endPoint
    isSwiping,          \* InputManager.isSwiping
    strength,           \* InputManager.strength
    staleManagers,      \* the InputManagers that setupInputManager replaced: they
                        \* were never disposed, so their listeners stay on the canvas
    endFresh,           \* history: endPoint was written since the last press
    commits,            \* history: commit callbacks made since the last press
    lastInput,          \* history: the last input event and the onSwipe call it made
    last                \* history: the last Game operation and the gameState before it

gameVars == <<started, isInitialized, loading, frames, animationFramePending, gameState, pendingReset,
              score, streak, highScore, shotAge, basketball, trajectoryVisible,
              timers, storedHighScore, uncaught, hoop, renderer, physics, bodyIsMesh, clockStarted>>
inputVars == <<startPoint, endPoint, isSwiping, strength, endFresh, commits,
               lastInput, staleManagers>>
vars == <<gameVars, inputVars, last>>

----------------------------------------------------------------------------
(* Bounds of the model *)

MaxScore == 2
MaxTestTimers == 1
Quantum == 1000
MaxStored == 1
MaxStrength == 3
MaxSessionScore == 12
MaxInits == 2
MaxLoads == 3
MaxOldScore == 3

(* Program constants *)

maxShotTime == 2000
resetDelay == 800
testShotDelay == 100
minSwipeDistance == 20
gameStrength == 4
trajectoryPoints == 20
gravityY == -9800
timeStepsPerSecond == 10

----------------------------------------------------------------------------
(* Vectors *)

V3(x, y, z) == [x |-> x, y |-> y, z |-> z]
V2(x, y) == [x |-> x, y |-> y]
Zero3 == V3(0, 0, 0)

Min(a, b) == IF a < b THEN a ELSE b
Max(a, b) == IF a > b THEN a ELSE b
Abs(a) == IF a < 0 THEN -a ELSE a

RECURSIVE SqrtSearch(_, _, _)
SqrtSearch(n, lo, hi) ==
    IF lo >= hi THEN lo
    ELSE LET mid == (lo + hi + 1) \div 2
         IN IF mid * mid <= n THEN SqrtSearch(n, mid, hi)
            ELSE SqrtSearch(n, lo, mid - 1)

\* Math.sqrt, rounded down to a whole unit
ISqrt(n) == SqrtSearch(n, 0, 40000)

LengthSq(v) == v.x * v.x + v.y * v.y + v.z * v.z
Sub3(a, b) == V3(a.x - b.x, a.y - b.y, a.z - b.z)
Add3(a, b) == V3(a.x + b.x, a.y + b.y, a.z + b.z)
\* Vector3.distanceTo, in mm rounded down
DistanceTo(a, b) == ISqrt(LengthSq(Sub3(a, b)))
\* Vector2.distanceTo squared (compared against the squared threshold)
Distance2Sq(a, b) == (a.x - b.x) * (a.x - b.x) + (a.y - b.y) * (a.y - b.y)

----------------------------------------------------------------------------
(* Positions and forces the source names *)

originPosition == V3(0, 1500, 2000)
hoopPosition == V3(0, 3050, -5000)
testShotPosition == V3(0, 3725, -5100)
testShotForce == V3(0, -200, 500)

(* Hoop geometry *)
rimRadius == 400
triggerOffsetY == -50
triggerHalfHeight == 150
\* this.config.rimRadius * 0.8
TriggerRadius == (rimRadius * 8) \div 10

\* inverse of the rim mesh's rotation.x = PI / 2
RotateXBack(v) == V3(v.x, v.z, -v.y)

\* triggerZone.worldToLocal: undo the group's translation, the rim's rotation
\* and the trigger mesh's own offset along its parent's y axis
WorldToLocal(p) ==
    LET q == RotateXBack(Sub3(p, hoopPosition))
    IN V3(q.x, q.y - triggerOffsetY, q.z)

\* Hoop.checkBasket
CheckBasket(p) ==
    LET l == WorldToLocal(p)
        isWithinRadius == l.x * l.x + l.z * l.z < TriggerRadius * TriggerRadius
        isWithinHeight == Abs(l.y) < triggerHalfHeight
    IN isWithinRadius /\ isWithinHeight

----------------------------------------------------------------------------
(* High score persistence *)

RECURSIVE NumberToString(_)
\* Number.prototype.toString for a non-negative integer: its decimal digits
NumberToString(n) == IF n < 10 THEN <<n>> ELSE Append(NumberToString(n \div 10), n % 10)

RECURSIVE ParseInt(_)
\* parseInt of a string of decimal digits
ParseInt(s) ==
    IF Len(s) = 0 THEN 0
    ELSE 10 * ParseInt(SubSeq(s, 1, Len(s) - 1)) + s[Len(s)]

\* Game.loadHighScore
LoadHighScore(stored) == IF Len(stored) > 0 THEN ParseInt(stored) ELSE 0

\* Game.saveHighScore
SaveHighScore(h) == NumberToString(h)

----------------------------------------------------------------------------
(* The Basketball entity *)

\* version: which of the two Basketball classes the object is, "teleport"
\* (reset moves the body) or "recreate" (reset destroys and rebuilds it);
\* launched (history): a force was applied since the ball was created or
\* last repositioned; mesh: this.mesh and this.body, which create assigns
\* together, are set; pos: mesh.position, which getPosition and the hoop
\* read; bodyPosition: body.position, which reset writes
NoBall == [exists |-> FALSE, mesh |-> FALSE, version |-> "teleport",
           configPosition |-> Zero3,
           pos |-> Zero3, bodyPosition |-> Zero3, vel |-> Zero3, angVel |-> Zero3, impulse |-> Zero3,
           isReset |-> FALSE, launched |-> FALSE]

\* new Basketball(physics, scene, {position})
NewBall(p) == [exists |-> TRUE, mesh |-> TRUE, version |-> "teleport",
               configPosition |-> p,
               pos |-> p, bodyPosition |-> p, vel |-> Zero3, angVel |-> Zero3, impulse |-> Zero3,
               isReset |-> FALSE, launched |-> FALSE]

\* Basketball.getPosition: a new zero vector when there is no mesh
GetPosition(b) == IF b.mesh THEN b.pos ELSE Zero3

\* Basketball.getVelocity: a new zero vector when there is no body
GetVelocity(b) == IF b.mesh THEN b.vel ELSE Zero3

\* Basketball.applyForce: the impulse waits for the next physics step
ApplyForce(b, f) ==
    IF b.mesh
    THEN [b EXCEPT !.impulse = Add3(@, f), !.isReset = FALSE, !.launched = TRUE]
    ELSE b

\* Basketball.reset(position), the version that moves the body: it writes
\* body.position, and mesh.position follows at once only when the engine
\* keeps the two as one vector
BallReset(b, p) ==
    IF b.mesh
    THEN [b EXCEPT !.bodyPosition = p, !.pos = IF bodyIsMesh THEN p ELSE @,
                   !.vel = Zero3, !.angVel = Zero3, !.impulse = Zero3,
                   !.isReset = TRUE, !.launched = FALSE]
    ELSE b

\* Basketball.create: a fresh mesh and body at this.config.position
Create(b) ==
    [b EXCEPT !.mesh = TRUE, !.pos = b.configPosition,
              !.bodyPosition = b.configPosition, !.vel = Zero3,
              !.angVel = Zero3, !.impulse = Zero3, !.launched = FALSE]

\* Basketball.reset(position), the version that destroys the body, stores the
\* position in this.config and creates the ball again
BallResetRecreate(b, p) ==
    IF b.mesh
    THEN [Create([b EXCEPT !.configPosition = p]) EXCEPT !.isReset = TRUE]
    ELSE b

(* The Hoop entity, as far as the Game looks at it *)
NoHoop == [exists |-> FALSE, triggerZone |-> FALSE]

\* new Hoop(physics, scene, {position}): create builds the trigger zone
NewHoop == [exists |-> TRUE, triggerZone |-> TRUE]

(* What a physics step can report for the ball: position and velocity *)
BallSamples ==
    { [pos |-> V3(0, 4000, -2000),  vel |-> V3(0, 3000, -4000)],   \* in flight
      [pos |-> V3(0, 3050, -5000),  vel |-> V3(0, -2000, 0)],      \* falling through the rim centre
      [pos |-> V3(0, 3050, -5000),  vel |-> V3(0, 2000, 0)],       \* rising through the rim centre
      [pos |-> V3(0, 3050, -5000),  vel |-> V3(200, 0, 0)],        \* rolling level through the rim centre
      [pos |-> V3(0, 500, -2000),   vel |-> V3(0, 0, 0)],          \* at rest
      [pos |-> V3(10001, 500, 0),   vel |-> V3(3000, 0, 0)],       \* too far to the side
      [pos |-> V3(0, 500, -10001),  vel |-> V3(0, 0, -3000)],      \* too far behind the hoop
      [pos |-> V3(0, -5001, 0),     vel |-> V3(0, -3000, 0)] }     \* below ground

\* physics.update: the engine consumes the pending impulse, moves the body
\* and copies its position to the mesh
PhysicsUpdate(b, s) ==
    IF b.exists /\ b.mesh
    THEN [b EXCEPT !.pos = s.pos, !.bodyPosition = s.pos, !.vel = s.vel,
                   !.impulse = Zero3]
    ELSE b

----------------------------------------------------------------------------
(* The Game object: its fields, gathered so that one method's result can  *)
(* be handed to the next                                                   *)

World ==
    [gameState |-> gameState, pendingReset |-> pendingReset, score |-> score,
     streak |-> streak, highScore |-> highScore, shotAge |-> shotAge,
     basketball |-> basketball, trajectoryVisible |-> trajectoryVisible,
     timers |-> timers, storedHighScore |-> storedHighScore, uncaught |-> uncaught,
     hoop |-> hoop, renderer |-> renderer, physics |-> physics,
     clockStarted |-> clockStarted, inputManager |-> isInitialized]

SetWorld(w) ==
    /\ gameState' = w.gameState
    /\ pendingReset' = w.pendingReset
    /\ score' = w.score
    /\ streak' = w.streak
    /\ highScore' = w.highScore
    /\ shotAge' = w.shotAge
    /\ basketball' = w.basketball
    /\ trajectoryVisible' = w.trajectoryVisible
    /\ timers' = w.timers
    /\ storedHighScore' = w.storedHighScore
    /\ uncaught' = w.uncaught
    /\ hoop' = w.hoop
    /\ renderer' = w.renderer
    /\ physics' = w.physics
    /\ clockStarted' = w.clockStarted
    /\ UNCHANGED bodyIsMesh

\* shotAge beyond maxShotTime: every larger value behaves the same
Expired == maxShotTime + 1

\* setTimeout(callback, ms) / delay(ms).then(callback)
Schedule(ts, kind, ms) == Append(ts, [kind |-> kind, left |-> ms])

----------------------------------------------------------------------------
(* Game.handleSwipe *)

\* modifiedForce without modifiedForce.add(aimAssist)
ModifiedForce_NoAimAssist(force, ballPos) ==
    LET distanceToHoop == DistanceTo(ballPos, hoopPosition)
    IN V3((force.x * 7) \div 10,
          (force.y * 18) \div 10,
          (force.z * distanceToHoop) \div 5000)

\* modifiedForce, with the aim assist added
ModifiedForce(force, ballPos) ==
    LET distanceToHoop == DistanceTo(ballPos, hoopPosition)
    IN V3((force.x * 7) \div 10 - ballPos.x \div 10,
          (force.y * 18) \div 10,
          (force.z * distanceToHoop) \div 5000)

\* the preview branch of handleSwipe: it reads this.inputManager.trajectoryLine
\* first, which raises when the InputManager reference is null
Preview(w) ==
    IF w.inputManager
    THEN [w EXCEPT !.trajectoryVisible = TRUE, !.gameState = "AIMING"]
    ELSE [w EXCEPT !.uncaught = TRUE]

\* the commit branch of handleSwipe up to the change of state
Shoot(w, force) ==
    [w EXCEPT
       !.basketball = ApplyForce(@, ModifiedForce(force, GetPosition(w.basketball))),
       !.gameState = "SHOOTING",
       !.shotAge = 0]

\* the last statement of the commit branch: this.inputManager.hideTrajectoryLine(),
\* which raises when the InputManager reference is null
HideTrajectoryLine(w) ==
    IF w.inputManager
    THEN [w EXCEPT !.trajectoryVisible = FALSE]
    ELSE [w EXCEPT !.uncaught = TRUE]

\* handleSwipe with the isPreview flag ignored: a preview shoots too
HandleSwipe_PreviewShoots(w, force, isPreview) ==
    IF w.gameState # "SHOOTING" /\ w.basketball.exists
    THEN HideTrajectoryLine(Shoot(w, force))
    ELSE w

\* handleSwipe with the state test applied to commits only: a preview is
\* accepted in SHOOTING too
HandleSwipe_PreviewWhileShooting(w, force, isPreview) ==
    IF (isPreview \/ w.gameState # "SHOOTING") /\ w.basketball.exists
    THEN IF isPreview THEN Preview(w) ELSE HideTrajectoryLine(Shoot(w, force))
    ELSE w

\* Game.handleSwipe; a preview shows the trajectory line, whose points
\* UpdateTrajectoryLine computes
HandleSwipe(w, force, isPreview) ==
    IF w.gameState # "SHOOTING" /\ w.basketball.exists
    THEN IF isPreview THEN Preview(w) ELSE HideTrajectoryLine(Shoot(w, force))
    ELSE w

----------------------------------------------------------------------------
(* Game.checkForBasket *)

\* the basket test with velocity.y <= 0 in place of velocity.y < 0
BasketMade_NotRising(w) ==
    /\ w.gameState = "SHOOTING"
    /\ w.basketball.exists
    /\ w.hoop.exists
    /\ w.basketball.mesh
    /\ w.hoop.triggerZone
    /\ ~w.pendingReset
    /\ GetVelocity(w.basketball).y <= 0
    /\ CheckBasket(w.basketball.pos)

\* the two conditions of checkForBasket
BasketMade(w) ==
    /\ w.gameState = "SHOOTING"
    /\ w.basketball.exists
    /\ w.hoop.exists
    /\ w.basketball.mesh
    /\ w.hoop.triggerZone
    /\ ~w.pendingReset
    /\ GetVelocity(w.basketball).y < 0
    /\ CheckBasket(w.basketball.pos)

\* checkForBasket with saveHighScore called before this.highScore is assigned
CheckForBasket_SavesFirst(w) ==
    IF BasketMade(w)
    THEN LET newHigh == w.score + 1 > w.highScore
         IN [w EXCEPT
               !.score = @ + 1,
               !.streak = @ + 1,
               !.highScore = IF newHigh THEN w.score + 1 ELSE @,
               !.storedHighScore = IF newHigh THEN SaveHighScore(w.highScore) ELSE @,
               !.gameState = "SCORED",
               !.pendingReset = TRUE,
               !.timers = Schedule(@, "SCORED", resetDelay)]
    ELSE w

\* checkForBasket without this.streak++
CheckForBasket_NoStreak(w) ==
    IF BasketMade(w)
    THEN LET newHigh == w.score + 1 > w.highScore
         IN [w EXCEPT
               !.score = @ + 1,
               !.highScore = IF newHigh THEN w.score + 1 ELSE @,
               !.storedHighScore = IF newHigh THEN SaveHighScore(w.score + 1) ELSE @,
               !.gameState = "SCORED",
               !.pendingReset = TRUE,
               !.timers = Schedule(@, "SCORED", resetDelay)]
    ELSE w

\* checkForBasket without this.score++
CheckForBasket_NoScore(w) ==
    IF BasketMade(w)
    THEN LET newHigh == w.score > w.highScore
         IN [w EXCEPT
               !.streak = @ + 1,
               !.highScore = IF newHigh THEN w.score ELSE @,
               !.storedHighScore = IF newHigh THEN SaveHighScore(w.score) ELSE @,
               !.gameState = "SCORED",
               !.pendingReset = TRUE,
               !.timers = Schedule(@, "SCORED", resetDelay)]
    ELSE w

CheckForBasket(w) ==
    IF BasketMade(w)
    THEN LET newHigh == w.score + 1 > w.highScore
         IN [w EXCEPT
               !.score = @ + 1,
               !.streak = @ + 1,
               !.highScore = IF newHigh THEN w.score + 1 ELSE @,
               !.storedHighScore = IF newHigh THEN SaveHighScore(w.score + 1) ELSE @,
               !.gameState = "SCORED",
               !.pendingReset = TRUE,
               !.timers = Schedule(@, "SCORED", resetDelay)]
    ELSE w

\* resetBasketball with the flag cleared inside the try instead of in finally
ResetBasketball_NoFinally(w, throws) ==
    IF throws \/ ~w.basketball.exists
    THEN w
    ELSE [w EXCEPT !.basketball = BallReset(@, originPosition),
                   !.gameState = "IDLE",
                   !.pendingReset = FALSE]

\* Game.resetBasketball: try { reset; IDLE } catch { log } finally { clear };
\* with this.basketball null the call raises a TypeError inside the try
ResetBasketball(w, throws) ==
    IF throws \/ ~w.basketball.exists
    THEN [w EXCEPT !.pendingReset = FALSE]
    ELSE [w EXCEPT !.basketball = BallReset(@, originPosition),
                   !.gameState = "IDLE",
                   !.pendingReset = FALSE]

\* the callback checkForBasket hands to setTimeout
ScoredCallback(w, throws) ==
    IF w.gameState = "SCORED" THEN ResetBasketball(w, throws) ELSE w

----------------------------------------------------------------------------
(* Game.checkBallState *)

\* the conditions under which checkBallState ends the shot
BallDone(w) ==
    LET position == GetPosition(w.basketball)
        velocity == GetVelocity(w.basketball)
        isTooFar == Abs(position.x) > 10000 \/ Abs(position.z) > 10000
        isBelowGround == position.y < -5000
        hasStopped == LengthSq(velocity) < 100 * 100
        shotTimeExceeded == w.shotAge > maxShotTime
    IN isTooFar \/ isBelowGround \/ hasStopped \/ shotTimeExceeded

\* checkBallState without the !this.pendingReset guard
CheckBallState_IgnoresPending(w) ==
    IF w.gameState = "SHOOTING" /\ w.basketball.exists /\ BallDone(w)
    THEN [w EXCEPT !.pendingReset = TRUE,
                   !.gameState = "RESET",
                   !.streak = 0,
                   !.timers = Schedule(@, "RESET", resetDelay)]
    ELSE w

\* checkBallState without this.streak = 0
CheckBallState_KeepsStreak(w) ==
    IF w.gameState = "SHOOTING" /\ w.basketball.exists /\ ~w.pendingReset
       /\ BallDone(w)
    THEN [w EXCEPT !.pendingReset = TRUE,
                   !.gameState = "RESET",
                   !.timers = Schedule(@, "RESET", resetDelay)]
    ELSE w

\* checkBallState with the hoop tests of checkForBasket added to its guard
CheckBallState_NeedsHoop(w) ==
    IF w.gameState = "SHOOTING" /\ w.basketball.exists /\ w.hoop.exists
       /\ w.hoop.triggerZone /\ ~w.pendingReset /\ BallDone(w)
    THEN [w EXCEPT !.pendingReset = TRUE,
                   !.gameState = "RESET",
                   !.streak = 0,
                   !.timers = Schedule(@, "RESET", resetDelay)]
    ELSE w

\* Game.checkBallState
CheckBallState(w) ==
    IF w.gameState = "SHOOTING" /\ w.basketball.exists /\ ~w.pendingReset
       /\ BallDone(w)
    THEN [w EXCEPT !.pendingReset = TRUE,
                   !.gameState = "RESET",
                   !.streak = 0,
                   !.timers = Schedule(@, "RESET", resetDelay)]
    ELSE w

\* the callback checkBallState hands to delay(resetDelay).then
ResetCallback(w, throws) ==
    IF w.basketball.exists
    THEN IF throws
         THEN [w EXCEPT !.pendingReset = FALSE]
         ELSE [w EXCEPT !.basketball = BallReset(@, originPosition),
                        !.gameState = "IDLE",
                        !.pendingReset = FALSE]
    ELSE w

----------------------------------------------------------------------------
(* Game.testShot and its delayed callback *)

TestShotCall(w) ==
    IF w.gameState # "SHOOTING" /\ w.basketball.exists
    THEN [w EXCEPT !.basketball = BallReset(@, testShotPosition),
                   !.timers = Schedule(@, "TEST", testShotDelay)]
    ELSE w

\* with this.basketball null the first statement raises a TypeError that
\* nothing catches
TestShotCallback(w) ==
    IF w.basketball.exists
    THEN [w EXCEPT !.basketball = ApplyForce(@, testShotForce),
                   !.gameState = "SHOOTING"]
    ELSE [w EXCEPT !.uncaught = TRUE]

----------------------------------------------------------------------------
(* Game.update: one animation frame *)

\* the tick with the two checks placed before the physics step
UpdateCalls_ChecksFirst ==
    <<"checkForBasket", "checkBallState", "physics.update", "render">>

\* the tick with checkBallState called before checkForBasket
UpdateCalls_BallStateFirst ==
    <<"physics.update", "checkBallState", "checkForBasket", "render">>

\* the calls of one tick, in the order update makes them
UpdateCalls == <<"physics.update", "checkForBasket", "checkBallState", "render">>

\* one call of the tick; renderer.render draws the scene and changes no field,
\* and raises when the renderer reference is null
RunCall(name, w, sample) ==
    CASE name = "physics.update" -> [w EXCEPT !.basketball = PhysicsUpdate(@, sample)]
      [] name = "checkForBasket" -> CheckForBasket(w)
      [] name = "checkBallState" -> CheckBallState(w)
      [] name = "render" -> IF w.renderer THEN w ELSE [w EXCEPT !.uncaught = TRUE]

RECURSIVE RunCalls(_, _, _)
RunCalls(calls, w, sample) ==
    IF calls = <<>> THEN w
    ELSE RunCalls(Tail(calls), RunCall(Head(calls), w, sample), sample)

\* what physics.update(0) reports: the body where it is, copied to the mesh
Still(b) == [pos |-> b.bodyPosition, vel |-> b.vel]

\* Game.update after its requestAnimationFrame: the physics block runs only
\* when this.physics is set, the render call always. The first getDelta of
\* the Game's clock starts it and returns 0, so that step moves nothing;
\* every later step spans the time since the last one, and what it reports
\* is the sample
Update(w, sample) ==
    IF w.physics
    THEN RunCalls(UpdateCalls, [w EXCEPT !.clockStarted = TRUE],
                  IF w.clockStarted THEN sample ELSE Still(w.basketball))
    ELSE RunCalls(<<"render">>, w, sample)

----------------------------------------------------------------------------
(* InputManager *)

Clamp(v, lo, hi) == Max(lo, Min(v, hi))

\* calculateForce with the y component clamped from above only
CalculateForce_NoFloor(start, end, st) ==
    LET dx == (start.x - end.x) * 10 * st
        dy == (start.y - end.y) * 10 * st
        dz == -1000 * st
    IN V3(Clamp(dx, -1000 * st, 1000 * st),
          Min(dy, 2000 * st),
          Clamp(dz, -2000 * st, 0))

\* InputManager.calculateForce; st is this.strength
CalculateForce(start, end, st) ==
    LET dx == (start.x - end.x) * 10 * st
        dy == (start.y - end.y) * 10 * st
        dz == -1000 * st
    IN V3(Clamp(dx, -1000 * st, 1000 * st),
          Clamp(dy, 0, 2000 * st),
          Clamp(dz, -2000 * st, 0))

\* startPosition in the units the trajectory is kept in: 1 / timeStepsPerSecond
\* of a millimetre, so that one time step of a whole mm/s velocity is whole
TrajectoryUnits(p) ==
    V3(p.x * timeStepsPerSecond, p.y * timeStepsPerSecond, p.z * timeStepsPerSecond)

\* velocity += gravity * timeStep
AddGravity(velocity) ==
    V3(velocity.x, velocity.y + gravityY \div timeStepsPerSecond, velocity.z)

RECURSIVE TrajectoryLoop(_, _, _)
\* the for loop of updateTrajectoryLine from iteration i on: the points pushed
TrajectoryLoop(position, velocity, i) ==
    IF i >= trajectoryPoints THEN <<>>
    ELSE LET moved == Add3(position, velocity)
         IN <<position>> \o (IF moved.y < 0 THEN <<>>
                             ELSE TrajectoryLoop(moved, AddGravity(velocity), i + 1))

\* updateTrajectoryLine without the loop that fills the remaining points
UpdateTrajectoryLine_NoFill(startPosition, force) ==
    TrajectoryLoop(TrajectoryUnits(startPosition), force, 0)

\* InputManager.updateTrajectoryLine: the points written to the line
UpdateTrajectoryLine(startPosition, force) ==
    LET pushed == TrajectoryLoop(TrajectoryUnits(startPosition), force, 0)
    IN pushed \o [k \in 1..(trajectoryPoints - Len(pushed)) |-> Zero3]

\* distance > this.minSwipeDistance
IsSwipe(start, end) == Distance2Sq(start, end) > minSwipeDistance * minSwipeDistance

(* Screen points the events carry *)
Points == { V2(100, 500), V2(100, 300), V2(112, 516) }
TouchCounts == { 1, 2 }

NoCall == [kind |-> "none", force |-> Zero3]
Call(force, isPreview) ==
    [kind |-> IF isPreview THEN "preview" ELSE "commit", force |-> force]

\* this.onSwipe(force, isPreview): Game.handleSwipe, bound in setupInputManager
OnSwipe(call, w) ==
    IF call.kind = "none"
    THEN w
    ELSE HandleSwipe(w, call.force, call.kind = "preview")

Event(name, p, call) == [event |-> name, point |-> p, call |-> call]

\* the InputManager that Game.inputManager refers to
Current ==
    [startPoint |-> startPoint, endPoint |-> endPoint, isSwiping |-> isSwiping,
     strength |-> strength, endFresh |-> endFresh, commits |-> commits]

\* what a handler leaves: the manager's fields and the onSwipe call it made
Handled(m, call) == [m |-> m, call |-> call]

\* InputManager.handleTouchStart
HandleTouchStart(m, n, p) ==
    Handled(IF n = 1
            THEN [m EXCEPT !.startPoint = p, !.isSwiping = TRUE,
                           !.endFresh = FALSE, !.commits = 0]
            ELSE m,
            NoCall)

\* InputManager.handleTouchMove
HandleTouchMove(m, n, p) ==
    IF m.isSwiping /\ n = 1
    THEN Handled([m EXCEPT !.endPoint = p, !.endFresh = TRUE],
                 Call(CalculateForce(m.startPoint, p, m.strength), TRUE))
    ELSE Handled(m, NoCall)

\* InputManager.handleTouchEnd; p is where the finger was lifted, which the
\* handler does not read: it works from the endPoint it finds
HandleTouchEnd(m, p) ==
    IF m.isSwiping
    THEN IF IsSwipe(m.startPoint, m.endPoint)
         THEN Handled([m EXCEPT !.isSwiping = FALSE, !.commits = @ + 1],
                      Call(CalculateForce(m.startPoint, m.endPoint, m.strength), FALSE))
         ELSE Handled([m EXCEPT !.isSwiping = FALSE], NoCall)
    ELSE Handled(m, NoCall)

\* InputManager.handleMouseDown
HandleMouseDown(m, p) ==
    Handled([m EXCEPT !.startPoint = p, !.isSwiping = TRUE,
                      !.endFresh = FALSE, !.commits = 0],
            NoCall)

\* InputManager.handleMouseMove
HandleMouseMove(m, p) ==
    IF m.isSwiping
    THEN Handled([m EXCEPT !.endPoint = p, !.endFresh = TRUE],
                 Call(CalculateForce(m.startPoint, p, m.strength), TRUE))
    ELSE Handled(m, NoCall)

\* handleMouseUp without this.isSwiping = false
HandleMouseUp_StaysActive(m, p) ==
    IF m.isSwiping
    THEN IF IsSwipe(m.startPoint, p)
         THEN Handled([m EXCEPT !.endPoint = p, !.endFresh = TRUE, !.commits = @ + 1],
                      Call(CalculateForce(m.startPoint, p, m.strength), FALSE))
         ELSE Handled([m EXCEPT !.endPoint = p, !.endFresh = TRUE], NoCall)
    ELSE Handled(m, NoCall)

\* InputManager.handleMouseUp
HandleMouseUp(m, p) ==
    IF m.isSwiping
    THEN IF IsSwipe(m.startPoint, p)
         THEN Handled([m EXCEPT !.isSwiping = FALSE, !.endPoint = p,
                                !.endFresh = TRUE, !.commits = @ + 1],
                      Call(CalculateForce(m.startPoint, p, m.strength), FALSE))
         ELSE Handled([m EXCEPT !.isSwiping = FALSE, !.endPoint = p,
                                !.endFresh = TRUE], NoCall)
    ELSE Handled(m, NoCall)

\* the listener an InputManager has added to the canvas for the event
Listener(name, m, n, p) ==
    CASE name = "touchstart" -> HandleTouchStart(m, n, p)
      [] name = "touchmove" -> HandleTouchMove(m, n, p)
      [] name = "touchend" -> HandleTouchEnd(m, p)
      [] name = "mousedown" -> HandleMouseDown(m, p)
      [] name = "mousemove" -> HandleMouseMove(m, p)
      [] name = "mouseup" -> HandleMouseUp(m, p)

\* the InputManagers whose listeners are on the canvas, in the order they
\* were added: those that setupInputManager replaced without disposing
\* them, then the one Game.inputManager refers to
Listeners == staleManagers \o (IF isInitialized THEN <<Current>> ELSE <<>>)

RECURSIVE OnSwipeEach(_, _)
\* the onSwipe calls of one event, made in the listeners' order
OnSwipeEach(calls, w) ==
    IF calls = <<>> THEN w ELSE OnSwipeEach(Tail(calls), OnSwipe(Head(calls), w))

\* the canvas dispatches an event to every listener added for it; n is the
\* number of touches and p the point the event carries
Dispatch(name, n, p) ==
    /\ LET handled == [i \in DOMAIN Listeners |-> Listener(name, Listeners[i], n, p)]
           calls == [i \in DOMAIN handled |-> handled[i].call]
           made == { i \in DOMAIN calls : calls[i].kind # "none" }
           k == Len(staleManagers)
       IN /\ staleManagers' = [i \in 1..k |-> handled[i].m]
          /\ IF isInitialized
             THEN /\ startPoint' = handled[k + 1].m.startPoint
                  /\ endPoint' = handled[k + 1].m.endPoint
                  /\ isSwiping' = handled[k + 1].m.isSwiping
                  /\ endFresh' = handled[k + 1].m.endFresh
                  /\ commits' = handled[k + 1].m.commits
                  /\ lastInput' = Event(name, p, handled[k + 1].call)
             ELSE /\ UNCHANGED <<startPoint, endPoint, isSwiping, endFresh, commits>>
                  /\ lastInput' = Event(name, p, NoCall)
          /\ IF made = {}
             THEN /\ SetWorld(World)
                  /\ UNCHANGED last
             ELSE /\ SetWorld(OnSwipeEach(calls, [World EXCEPT !.uncaught = FALSE]))
                  /\ last' = [op |-> calls[CHOOSE i \in made : TRUE].kind,
                              from |-> gameState]
    /\ UNCHANGED <<strength, started, isInitialized, loading, frames,
                   animationFramePending>>

\* a finger goes down on the canvas
TouchStart(n, p) ==
    /\ Listeners # <<>>
    /\ Dispatch("touchstart", n, p)

\* a finger moves on the canvas
TouchMove(n, p) ==
    /\ Listeners # <<>>
    /\ Dispatch("touchmove", n, p)

\* the finger is lifted at p
TouchEnd(p) ==
    /\ Listeners # <<>>
    /\ Dispatch("touchend", 0, p)

\* the mouse button goes down on the canvas
MouseDown(p) ==
    /\ Listeners # <<>>
    /\ Dispatch("mousedown", 0, p)

\* the mouse moves over the canvas
MouseMove(p) ==
    /\ Listeners # <<>>
    /\ Dispatch("mousemove", 0, p)

\* the mouse button is released
MouseUp(p) ==
    /\ Listeners # <<>>
    /\ Dispatch("mouseup", 0, p)

----------------------------------------------------------------------------
(* The Game's operations as steps *)

\* Game.init: nothing when isInitialized is set; otherwise initGraphics
\* creates scene, camera and renderer and the physics loader is started
GameInit ==
    /\ loading' = IF isInitialized THEN loading ELSE loading + 1
    /\ renderer' = (renderer \/ ~isInitialized)
    /\ last' = [op |-> "init", from |-> gameState]
    /\ UNCHANGED <<isInitialized, frames, animationFramePending, gameState,
                   pendingReset, score, streak, highScore, shotAge, basketball,
                   trajectoryVisible, timers, storedHighScore, uncaught, hoop, physics, bodyIsMesh, clockStarted>>
    /\ UNCHANGED inputVars

\* main: new Game(); game.init()
Start ==
    /\ ~started
    /\ started' = TRUE
    /\ GameInit

\* game.init() called again on the Game that main created, while the loader
\* callbacks outstanding, the update loops running and the InputManagers
\* replaced so far are fewer than n
InitCallWithin(n) ==
    /\ started
    /\ loading + frames + Len(staleManagers) < n
    /\ UNCHANGED started
    /\ GameInit

\* game.init() called again, up to MaxInits initialisations under way
InitCall ==
    /\ started
    /\ InitCallWithin(MaxInits)

\* Game.initPhysics, the loader's callback. With the scene in place it creates
\* the ball, the hoop and a new InputManager (setupInputManager: no gesture
\* in progress, both points at (0, 0)); the InputManager it replaces is not
\* disposed and keeps its listeners. Then it sets isInitialized and runs an
\* update(), which requests a frame; sample is what that update's physics
\* step reports when the clock is already running (a second callback).
\* With the scene null (dispose ran while the loader was out) the outcome is
\* the engine's: sceneRequired, new AmmoPhysics(null) raises and nothing is
\* assigned; otherwise the ball is created and then the Hoop's scene.add
\* raises, and nothing after it runs
InitPhysics(sample, sceneRequired) ==
    /\ loading > 0
    /\ sceneRequired => ~renderer
    /\ loading' = loading - 1
    /\ LET ball == NewBall(originPosition)
       IN IF renderer
          THEN /\ isInitialized' = TRUE
               /\ frames' = frames + 1
               /\ animationFramePending' = TRUE
               /\ LET w == Update([World EXCEPT !.physics = TRUE,
                                                 !.basketball = ball,
                                                 !.hoop = NewHoop,
                                                 !.inputManager = TRUE,
                                                 !.trajectoryVisible = FALSE,
                                                 !.uncaught = FALSE],
                                   sample)
                  IN /\ w.score <= MaxScore
                     /\ SetWorld(w)
               /\ startPoint' = V2(0, 0)
               /\ endPoint' = V2(0, 0)
               /\ isSwiping' = FALSE
               /\ strength' = gameStrength
               /\ endFresh' = FALSE
               /\ commits' = 0
               /\ lastInput' = Event("none", V2(0, 0), NoCall)
               /\ staleManagers' = IF isInitialized
                                   THEN Append(staleManagers, Current)
                                   ELSE staleManagers
          ELSE /\ SetWorld(IF sceneRequired
                           THEN [World EXCEPT !.uncaught = TRUE]
                           ELSE [World EXCEPT !.physics = TRUE,
                                              !.basketball = ball,
                                              !.uncaught = TRUE])
               /\ UNCHANGED <<isInitialized, frames, animationFramePending>>
               /\ UNCHANGED inputVars
    /\ last' = [op |-> "initPhysics", from |-> gameState]
    /\ UNCHANGED started

(* Forces a gesture can hand to handleSwipe *)
SwipeForces ==
    { CalculateForce(V2(100, 500), V2(100, 300), gameStrength),
      CalculateForce(V2(100, 500), V2(112, 516), gameStrength) }

\* Game.handleSwipe, the bound method that is handed to the InputManager as
\* its swipe callback
Swipe(force, isPreview) ==
    /\ started
    /\ SetWorld(HandleSwipe([World EXCEPT !.uncaught = FALSE], force, isPreview))
    /\ last' = [op |-> IF isPreview THEN "preview" ELSE "commit", from |-> gameState,
                 force |-> force]
    /\ UNCHANGED <<started, isInitialized, loading, frames, animationFramePending>>
    /\ UNCHANGED inputVars

\* one animation frame: Game.update, which requests the next frame first
Frame(sample) ==
    /\ frames > 0
    /\ animationFramePending' = TRUE
    /\ LET w == Update([World EXCEPT !.uncaught = FALSE], sample)
       IN /\ w.score <= MaxScore
          /\ SetWorld(w)
    /\ last' = [op |-> "update", from |-> gameState]
    /\ UNCHANGED <<started, isInitialized, loading, frames>>
    /\ UNCHANGED inputVars

\* the space bar: Game.testShot
TestShot ==
    /\ started
    /\ Cardinality({i \in DOMAIN timers : timers[i].kind = "TEST"}) < MaxTestTimers
    /\ SetWorld(TestShotCall(World))
    /\ last' = [op |-> "testShot", from |-> gameState]
    /\ UNCHANGED <<started, isInitialized, loading, frames, animationFramePending>>
    /\ UNCHANGED inputVars

\* Game.dispose, a public method with no guard of its own. It cancels the
\* frame request that animationFrameId names (one loop at most), then calls
\* this.renderer.dispose(), which raises when the renderer is already null;
\* otherwise the entities and the InputManager are released and every
\* reference is cleared. Timers already scheduled are left alone
Dispose ==
    /\ started
    /\ frames' = IF animationFramePending /\ frames > 0 THEN frames - 1 ELSE frames
    /\ animationFramePending' = FALSE
    /\ IF renderer
       THEN /\ isInitialized' = FALSE
            /\ basketball' = NoBall
            /\ hoop' = NoHoop
            /\ trajectoryVisible' = FALSE
            /\ renderer' = FALSE
            /\ physics' = FALSE
            /\ uncaught' = FALSE
       ELSE /\ uncaught' = TRUE
            /\ UNCHANGED <<isInitialized, basketball, hoop, trajectoryVisible,
                           renderer, physics>>
    /\ last' = [op |-> "dispose", from |-> gameState]
    /\ UNCHANGED <<started, loading, gameState, pendingReset, score, streak, highScore,
                   shotAge, timers, storedHighScore, bodyIsMesh, clockStarted>>
    /\ UNCHANGED inputVars

RECURSIVE MinLeft(_)
\* time to the next timer deadline, Quantum at most
MinLeft(ts) == IF ts = <<>> THEN Quantum ELSE Min(Head(ts).left, MinLeft(Tail(ts)))

\* the clock advances, never past a timer that is due
TimePasses ==
    /\ LET d == MinLeft(timers)
       IN /\ d > 0
          /\ shotAge' = Min(shotAge + d, Expired)
          /\ timers' = [i \in DOMAIN timers |-> [timers[i] EXCEPT !.left = @ - d]]
    /\ last' = [op |-> "time", from |-> gameState]
    /\ UNCHANGED <<started, isInitialized, loading, frames, animationFramePending, gameState, pendingReset,
                   score, streak, highScore, basketball, trajectoryVisible,
                   storedHighScore, uncaught, hoop, renderer, physics, bodyIsMesh, clockStarted>>
    /\ UNCHANGED inputVars

Remove(ts, i) == SubSeq(ts, 1, i - 1) \o SubSeq(ts, i + 1, Len(ts))

\* the first timer that is due
Due(ts) == { i \in DOMAIN ts : ts[i].left = 0 /\ \A j \in 1..(i - 1) : ts[j].left > 0 }

\* the timer's callback, by the place that scheduled it
Callback(kind, w, throws) ==
    CASE kind = "SCORED" -> ScoredCallback(w, throws)
      [] kind = "RESET" -> ResetCallback(w, throws)
      [] kind = "TEST" -> TestShotCallback(w)

\* whether the callback gets as far as calling Basketball.reset
CallsReset(kind, w) ==
    \/ kind = "SCORED" /\ w.gameState = "SCORED"
    \/ kind = "RESET" /\ w.basketball.exists

\* a due timer's callback runs; throws: Basketball.reset raises inside it
Fire(throws) ==
    \E i \in Due(timers) :
        LET kind == timers[i].kind
            w == [World EXCEPT !.timers = Remove(@, i), !.uncaught = FALSE]
        IN /\ throws => CallsReset(kind, w)
           /\ SetWorld(Callback(kind, w, throws))
           /\ last' = [op |-> IF throws THEN "throw" ELSE kind, from |-> gameState]

\* a due timer fires and its callback runs to the end
FireTimer ==
    /\ Due(timers) # {}
    /\ Fire(FALSE)
    /\ UNCHANGED <<started, isInitialized, loading, frames, animationFramePending>>
    /\ UNCHANGED inputVars

\* a due reset timer fires and repositioning the ball raises
FireTimerThrowing ==
    /\ Due(timers) # {}
    /\ Fire(TRUE)
    /\ UNCHANGED <<started, isInitialized, loading, frames, animationFramePending>>
    /\ UNCHANGED inputVars

----------------------------------------------------------------------------
(* Specifications *)

Init ==
    /\ started = FALSE
    /\ isInitialized = FALSE
    /\ loading = 0
    /\ frames = 0
    /\ gameState = "IDLE"
    /\ pendingReset = FALSE
    /\ score = 0
    /\ streak = 0
    /\ storedHighScore \in {<<>>} \cup { SaveHighScore(n) : n \in 1..MaxStored }
    /\ highScore = LoadHighScore(storedHighScore)
    /\ shotAge = Expired
    /\ basketball = NoBall
    /\ hoop = NoHoop
    /\ renderer = FALSE
    /\ physics = FALSE
    /\ bodyIsMesh \in BOOLEAN
    /\ clockStarted = FALSE
    /\ animationFramePending = FALSE
    /\ trajectoryVisible = FALSE
    /\ timers = <<>>
    /\ uncaught = FALSE
    /\ startPoint = V2(0, 0)
    /\ endPoint = V2(0, 0)
    /\ isSwiping = FALSE
    /\ staleManagers = <<>>
    /\ strength = gameStrength
    /\ endFresh = FALSE
    /\ commits = 0
    /\ lastInput = Event("none", V2(0, 0), NoCall)
    /\ last = [op |-> "new", from |-> "IDLE"]

Next ==
    \/ Start
    \/ \E s \in BallSamples, sceneRequired \in BOOLEAN : InitPhysics(s, sceneRequired)
    \/ \E f \in SwipeForces, isPreview \in BOOLEAN : Swipe(f, isPreview)
    \/ \E s \in BallSamples : Frame(s)
    \/ TestShot
    \/ TimePasses
    \/ FireTimer

Spec == Init /\ [][Next]_vars

(* What a physics step reports in the shot cycle: the ball in flight,     *)
(* falling through the rim centre, or at rest                             *)
FairSamples ==
    { [pos |-> V3(0, 4000, -2000),  vel |-> V3(0, 3000, -4000)],
      [pos |-> V3(0, 3050, -5000),  vel |-> V3(0, -2000, 0)],
      [pos |-> V3(0, 500, -2000),   vel |-> V3(0, 0, 0)] }

(* The straight upward gesture *)
FairForces == { CalculateForce(V2(100, 500), V2(100, 300), gameStrength) }

\* the shot cycle alone: gestures, frames, time and timers, no test shots
NextShots ==
    \/ Start
    \/ \E s \in FairSamples, sceneRequired \in BOOLEAN : InitPhysics(s, sceneRequired)
    \/ \E f \in FairForces, isPreview \in BOOLEAN : Swipe(f, isPreview)
    \/ \E s \in FairSamples : Frame(s)
    \/ TimePasses
    \/ FireTimer

\* frames keep coming, time passes, due timers fire; gestures are never forced
FairSpec ==
    /\ Init
    /\ [][NextShots]_vars
    /\ WF_vars(\E s \in FairSamples : Frame(s))
    /\ WF_vars(TimePasses)
    /\ WF_vars(FireTimer)

\* the same game, with Basketball.reset able to raise inside a reset callback
NextFault == Next \/ FireTimerThrowing

SpecFault == Init /\ [][NextFault]_vars

\* the same game, with Game.dispose called at any moment after start-up
NextDispose == Next \/ Dispose

SpecDispose == Init /\ [][NextDispose]_vars

\* the shot cycle, with Game.init called again at any moment after start-up
NextInit == NextShots \/ InitCall

SpecInit == Init /\ [][NextInit]_vars

\* the InputManager of a running game, driven by mouse and touch events
InitInput ==
    /\ started = TRUE
    /\ isInitialized = TRUE
    /\ loading = 0
    /\ frames = 1
    /\ gameState = "IDLE"
    /\ pendingReset = FALSE
    /\ score = 0
    /\ streak = 0
    /\ storedHighScore = <<>>
    /\ highScore = 0
    /\ shotAge = Expired
    /\ basketball = NewBall(originPosition)
    /\ hoop = NewHoop
    /\ renderer = TRUE
    /\ physics = TRUE
    /\ bodyIsMesh = TRUE           \* no step here repositions the ball
    /\ clockStarted = TRUE
    /\ animationFramePending = TRUE
    /\ trajectoryVisible = FALSE
    /\ timers = <<>>
    /\ uncaught = FALSE
    /\ startPoint = V2(0, 0)
    /\ endPoint = V2(0, 0)
    /\ isSwiping = FALSE
    /\ staleManagers = <<>>
    /\ strength = gameStrength
    /\ endFresh = FALSE
    /\ commits = 0
    /\ lastInput = Event("none", V2(0, 0), NoCall)
    /\ last = [op |-> "initPhysics", from |-> "IDLE"]

NextInput ==
    \/ \E n \in TouchCounts, p \in Points : TouchStart(n, p)
    \/ \E n \in TouchCounts, p \in Points : TouchMove(n, p)
    \/ \E p \in Points : TouchEnd(p)
    \/ \E p \in Points : MouseDown(p)
    \/ \E p \in Points : MouseMove(p)
    \/ \E p \in Points : MouseUp(p)

SpecInput == InitInput /\ [][NextInput]_vars

\* a long session of makes and misses, starting from a stored high score of
\* one or two digits, or from none
StoredScores == { 2, 9, 11 }
ScoreSamples ==
    { [pos |-> hoopPosition,         vel |-> V3(0, -2000, 0)],    \* falling through the rim centre
      [pos |-> V3(0, 500, -2000),    vel |-> Zero3] }             \* at rest

InitScore ==
    /\ started = TRUE
    /\ isInitialized = TRUE
    /\ loading = 0
    /\ frames = 1
    /\ gameState = "IDLE"
    /\ pendingReset = FALSE
    /\ score = 0
    /\ streak = 0
    /\ storedHighScore \in {<<>>} \cup { SaveHighScore(n) : n \in StoredScores }
    /\ highScore = LoadHighScore(storedHighScore)
    /\ shotAge = Expired
    /\ basketball = NewBall(originPosition)
    /\ hoop = NewHoop
    /\ renderer = TRUE
    /\ physics = TRUE
    /\ bodyIsMesh \in BOOLEAN
    /\ clockStarted = TRUE
    /\ animationFramePending = TRUE
    /\ trajectoryVisible = FALSE
    /\ timers = <<>>
    /\ uncaught = FALSE
    /\ startPoint = V2(0, 0)
    /\ endPoint = V2(0, 0)
    /\ isSwiping = FALSE
    /\ staleManagers = <<>>
    /\ strength = gameStrength
    /\ endFresh = FALSE
    /\ commits = 0
    /\ lastInput = Event("none", V2(0, 0), NoCall)
    /\ last = [op |-> "initPhysics", from |-> "IDLE"]

\* one animation frame of the long session: Game.update
ScoreFrame(sample) ==
    /\ frames > 0
    /\ animationFramePending' = TRUE
    /\ LET w == Update([World EXCEPT !.uncaught = FALSE], sample)
       IN /\ w.score <= MaxSessionScore
          /\ SetWorld(w)
    /\ last' = [op |-> "update", from |-> gameState]
    /\ UNCHANGED <<started, isInitialized, loading, frames>>
    /\ UNCHANGED inputVars

NextScore ==
    \/ \E f \in SwipeForces, isPreview \in BOOLEAN : Swipe(f, isPreview)
    \/ \E s \in ScoreSamples : ScoreFrame(s)
    \/ TimePasses
    \/ FireTimer

SpecScore == InitScore /\ [][NextScore]_vars

\* a shot in flight around the hoop: each frame the physics step leaves the
\* ball at some offset from the rim centre, falling or rising
HoopOffsetsX == { -330, -310, 0, 310, 330 }
HoopOffsetsY == { -330, -310, -160, -140, 0, 140, 160, 300, 330 }
HoopOffsetsZ == { -330, -300, -210, -190, -150, -50, 0, 90, 110, 300, 330 }
HoopSamples ==
    { [pos |-> Add3(hoopPosition, V3(dx, dy, dz)), vel |-> V3(0, vy, 0)] :
        dx \in HoopOffsetsX, dy \in HoopOffsetsY, dz \in HoopOffsetsZ,
        vy \in {-2000, 2000} }

InitHoop ==
    /\ started = TRUE
    /\ isInitialized = TRUE
    /\ loading = 0
    /\ frames = 1
    /\ gameState = "SHOOTING"
    /\ pendingReset = FALSE
    /\ score = 0
    /\ streak = 0
    /\ storedHighScore = <<>>
    /\ highScore = 0
    /\ shotAge = 0
    /\ \E f \in SwipeForces :
          basketball = ApplyForce(NewBall(originPosition),
                                  ModifiedForce(f, originPosition))
    /\ hoop = NewHoop
    /\ renderer = TRUE
    /\ physics = TRUE
    /\ bodyIsMesh = TRUE           \* no step here repositions the ball
    /\ clockStarted = TRUE
    /\ animationFramePending = TRUE
    /\ trajectoryVisible = FALSE
    /\ timers = <<>>
    /\ uncaught = FALSE
    /\ startPoint = V2(0, 0)
    /\ endPoint = V2(0, 0)
    /\ isSwiping = FALSE
    /\ staleManagers = <<>>
    /\ strength = gameStrength
    /\ endFresh = FALSE
    /\ commits = 0
    /\ lastInput = Event("none", V2(0, 0), NoCall)
    /\ last = [op |-> "commit", from |-> "IDLE"]

NextHoop == \E s \in HoopSamples : Frame(s)

SpecHoop == InitHoop /\ [][NextHoop]_vars

\* a Basketball on its own, of either class: forces, physics steps that
\* leave it moving and spinning, and resets to a given position
ResetPositions == { originPosition, testShotPosition, V3(0, 1000, 0) }
Spins == { Zero3, V3(3000, 0, -1000) }
BallForces == SwipeForces \cup { testShotForce }

InitBall ==
    /\ started = TRUE
    /\ isInitialized = TRUE
    /\ loading = 0
    /\ frames = 1
    /\ gameState = "IDLE"
    /\ pendingReset = FALSE
    /\ score = 0
    /\ streak = 0
    /\ storedHighScore = <<>>
    /\ highScore = 0
    /\ shotAge = Expired
    /\ \E v \in {"teleport", "recreate"} :
          basketball = [NewBall(originPosition) EXCEPT !.version = v]
    /\ hoop = NewHoop
    /\ renderer = TRUE
    /\ physics = TRUE
    /\ bodyIsMesh \in BOOLEAN
    /\ clockStarted = TRUE
    /\ animationFramePending = TRUE
    /\ trajectoryVisible = FALSE
    /\ timers = <<>>
    /\ uncaught = FALSE
    /\ startPoint = V2(0, 0)
    /\ endPoint = V2(0, 0)
    /\ isSwiping = FALSE
    /\ staleManagers = <<>>
    /\ strength = gameStrength
    /\ endFresh = FALSE
    /\ commits = 0
    /\ lastInput = Event("none", V2(0, 0), NoCall)
    /\ last = [op |-> "new", from |-> "IDLE", position |-> originPosition,
               inARow |-> 0]

\* basketball.applyForce(force), one impulse at most waiting for the engine
BallApplyForce(force) ==
    /\ basketball.impulse = Zero3
    /\ basketball' = ApplyForce(basketball, force)
    /\ last' = [op |-> "applyForce", from |-> gameState, position |-> basketball.pos,
                inARow |-> 0]
    /\ UNCHANGED <<started, isInitialized, loading, frames, animationFramePending, gameState, pendingReset,
                   score, streak, highScore, shotAge, trajectoryVisible, timers,
                   storedHighScore, uncaught, hoop, renderer, physics, bodyIsMesh, clockStarted>>
    /\ UNCHANGED inputVars

\* a physics step: the engine moves the ball and leaves it spinning
BallPhysics(sample, spin) ==
    /\ basketball' = [PhysicsUpdate(basketball, sample) EXCEPT !.angVel = spin]
    /\ last' = [op |-> "physics", from |-> gameState, position |-> sample.pos,
                inARow |-> 0]
    /\ UNCHANGED <<started, isInitialized, loading, frames, animationFramePending, gameState, pendingReset,
                   score, streak, highScore, shotAge, trajectoryVisible, timers,
                   storedHighScore, uncaught, hoop, renderer, physics, bodyIsMesh, clockStarted>>
    /\ UNCHANGED inputVars

\* basketball.reset(p); inARow counts the calls made in a row with the same p
BallResetCall(p) ==
    /\ basketball' = IF basketball.version = "teleport"
                     THEN BallReset(basketball, p)
                     ELSE BallResetRecreate(basketball, p)
    /\ last' = [op |-> "reset", from |-> gameState, position |-> p,
                inARow |-> IF last.op = "reset" /\ last.position = p
                           THEN Min(last.inARow + 1, 2) ELSE 1]
    /\ UNCHANGED <<started, isInitialized, loading, frames, animationFramePending, gameState, pendingReset,
                   score, streak, highScore, shotAge, trajectoryVisible, timers,
                   storedHighScore, uncaught, hoop, renderer, physics, bodyIsMesh, clockStarted>>
    /\ UNCHANGED inputVars

\* reset() with no argument: const resetPos = position || this.config.position
BallResetDefault(b) ==
    IF b.version = "teleport"
    THEN BallReset(b, b.configPosition)
    ELSE BallResetRecreate(b, b.configPosition)

\* basketball.reset()
BallResetDefaultCall ==
    /\ basketball' = BallResetDefault(basketball)
    /\ last' = [op |-> "resetDefault", from |-> gameState,
                position |-> basketball.configPosition, inARow |-> 0]
    /\ UNCHANGED <<started, isInitialized, loading, frames, animationFramePending, gameState, pendingReset,
                   score, streak, highScore, shotAge, trajectoryVisible, timers,
                   storedHighScore, uncaught, hoop, renderer, physics, bodyIsMesh, clockStarted>>
    /\ UNCHANGED inputVars

NextBall ==
    \/ \E f \in BallForces : BallApplyForce(f)
    \/ \E s \in BallSamples, a \in Spins : BallPhysics(s, a)
    \/ \E p \in ResetPositions : BallResetCall(p)
    \/ BallResetDefaultCall

SpecBall == InitBall /\ [][NextBall]_vars

\* calculateForce on its own: any two screen points, any positive strength
ForceCoords == { 0, 40, 100, 350, 600 }
ForcePoints == { V2(x, y) : x \in ForceCoords, y \in ForceCoords }

InitForce ==
    /\ started = TRUE
    /\ isInitialized = TRUE
    /\ loading = 0
    /\ frames = 1
    /\ gameState = "IDLE"
    /\ pendingReset = FALSE
    /\ score = 0
    /\ streak = 0
    /\ storedHighScore = <<>>
    /\ highScore = 0
    /\ shotAge = Expired
    /\ basketball = NewBall(originPosition)
    /\ hoop = NewHoop
    /\ renderer = TRUE
    /\ physics = TRUE
    /\ bodyIsMesh = TRUE           \* no step here repositions the ball
    /\ clockStarted = TRUE
    /\ animationFramePending = TRUE
    /\ trajectoryVisible = FALSE
    /\ timers = <<>>
    /\ uncaught = FALSE
    /\ startPoint = V2(0, 0)
    /\ endPoint = V2(0, 0)
    /\ isSwiping = FALSE
    /\ staleManagers = <<>>
    /\ strength \in 1..MaxStrength
    /\ endFresh = FALSE
    /\ commits = 0
    /\ lastInput = Event("none", V2(0, 0), NoCall)
    /\ last = [op |-> "initPhysics", from |-> "IDLE"]

\* this.calculateForce(start, end), its result kept as the last call's force
CalculateForceCall(start, end) ==
    /\ startPoint' = start
    /\ endPoint' = end
    /\ lastInput' = Event("calculateForce", end,
                          Call(CalculateForce(start, end, strength), TRUE))
    /\ UNCHANGED <<isSwiping, strength, endFresh, commits, staleManagers, last>>
    /\ UNCHANGED gameVars

NextForce == \E start \in ForcePoints, end \in ForcePoints : CalculateForceCall(start, end)

SpecForce == InitForce /\ [][NextForce]_vars

\* the trajectory preview on its own: any start position the ball can have,
\* any force a preview gesture can produce there
TrajectoryStarts ==
    { originPosition, hoopPosition, V3(0, 500, -2000), V3(0, -5001, 0) }
TrajectoryForces(start) ==
    { ModifiedForce(CalculateForce(a, b, gameStrength), start) :
        a \in ForcePoints, b \in ForcePoints }

InitTrajectory ==
    /\ started = TRUE
    /\ isInitialized = TRUE
    /\ loading = 0
    /\ frames = 1
    /\ gameState = "IDLE"
    /\ pendingReset = FALSE
    /\ score = 0
    /\ streak = 0
    /\ storedHighScore = <<>>
    /\ highScore = 0
    /\ shotAge = Expired
    /\ basketball = NewBall(originPosition)
    /\ hoop = NewHoop
    /\ renderer = TRUE
    /\ physics = TRUE
    /\ bodyIsMesh = TRUE           \* no step here repositions the ball
    /\ clockStarted = TRUE
    /\ animationFramePending = TRUE
    /\ trajectoryVisible = FALSE
    /\ timers = <<>>
    /\ uncaught = FALSE
    /\ startPoint = V2(0, 0)
    /\ endPoint = V2(0, 0)
    /\ isSwiping = FALSE
    /\ staleManagers = <<>>
    /\ strength = gameStrength
    /\ endFresh = FALSE
    /\ commits = 0
    /\ lastInput = Event("none", V2(0, 0), NoCall)
    /\ last = [op |-> "createTrajectoryLine", from |-> "IDLE", start |-> Zero3,
               force |-> Zero3, positions |-> [k \in 1..trajectoryPoints |-> Zero3]]

\* this.inputManager.updateTrajectoryLine(ballPosition, modifiedForce)
UpdateTrajectoryLineCall(start, force) ==
    /\ trajectoryVisible' = TRUE
    /\ last' = [op |-> "updateTrajectoryLine", from |-> gameState, start |-> start,
                force |-> force, positions |-> UpdateTrajectoryLine(start, force)]
    /\ UNCHANGED <<started, isInitialized, loading, frames, animationFramePending, gameState, pendingReset,
                   score, streak, highScore, shotAge, basketball, timers,
                   storedHighScore, uncaught, hoop, renderer, physics, bodyIsMesh, clockStarted>>
    /\ UNCHANGED inputVars

NextTrajectory ==
    \E start \in TrajectoryStarts :
        \E force \in TrajectoryForces(start) : UpdateTrajectoryLineCall(start, force)

SpecTrajectory == InitTrajectory /\ [][NextTrajectory]_vars

\* The earlier Game (src/js/game/Game.js): no gameState, no pendingReset, no
\* InputManager; the loop is physics, checkForBasket, render
oldBallPosition == V3(0, 1000, 0)
oldHoopPosition == V3(0, 3050, -3000)
oldResetDelay == 1000

\* Hoop.checkBasket for the hoop built at oldHoopPosition
OldCheckBasket(p) == CheckBasket(Add3(p, Sub3(hoopPosition, oldHoopPosition)))

\* the condition under which the earlier checkForBasket counts a basket
OldBasketMade(w) ==
    /\ w.basketball.exists
    /\ w.hoop.exists
    /\ w.basketball.mesh
    /\ w.hoop.triggerZone
    /\ GetVelocity(w.basketball).y < 0
    /\ OldCheckBasket(w.basketball.pos)

\* the earlier Game.checkForBasket
OldCheckForBasket(w) ==
    IF OldBasketMade(w)
    THEN [w EXCEPT !.score = @ + 1,
                   !.timers = Schedule(@, "OLDRESET", oldResetDelay)]
    ELSE w

\* the earlier Game.update
OldUpdate(w, sample) ==
    LET v == IF w.physics
             THEN OldCheckForBasket([w EXCEPT !.basketball = PhysicsUpdate(@, sample)])
             ELSE w
    IN RunCall("render", v, sample)

\* the callback the earlier checkForBasket hands to setTimeout
OldResetCallback(w) ==
    IF w.basketball.exists
    THEN [w EXCEPT !.basketball = BallReset(@, oldBallPosition)]
    ELSE [w EXCEPT !.uncaught = TRUE]

(* What a physics step of the earlier game can report: the ball falling *)
(* through the trigger zone at 2 m/s, 33 mm a tick, rising in it, or    *)
(* lying on the ground                                                  *)
OldSamples ==
    { [pos |-> Add3(oldHoopPosition, V3(0, 33, 0)),  vel |-> V3(0, -2000, 0)],
      [pos |-> oldHoopPosition,                      vel |-> V3(0, -2000, 0)],
      [pos |-> Add3(oldHoopPosition, V3(0, -33, 0)), vel |-> V3(0, -2000, 0)],
      [pos |-> oldHoopPosition,                      vel |-> V3(0, 2000, 0)],
      [pos |-> V3(0, 240, -3000),                    vel |-> Zero3] }

InitOld ==
    /\ started = TRUE
    /\ isInitialized = TRUE
    /\ loading = 0
    /\ frames = 1
    /\ gameState = "IDLE"
    /\ pendingReset = FALSE
    /\ score = 0
    /\ streak = 0
    /\ storedHighScore = <<>>
    /\ highScore = 0
    /\ shotAge = Expired
    /\ basketball = NewBall(oldBallPosition)
    /\ hoop = NewHoop
    /\ renderer = TRUE
    /\ physics = TRUE
    /\ bodyIsMesh \in BOOLEAN
    /\ clockStarted = TRUE
    /\ animationFramePending = TRUE
    /\ trajectoryVisible = FALSE
    /\ timers = <<>>
    /\ uncaught = FALSE
    /\ startPoint = V2(0, 0)
    /\ endPoint = V2(0, 0)
    /\ isSwiping = FALSE
    /\ staleManagers = <<>>
    /\ strength = gameStrength
    /\ endFresh = FALSE
    /\ commits = 0
    /\ lastInput = Event("none", V2(0, 0), NoCall)
    /\ last = [op |-> "initPhysics", from |-> "IDLE"]

\* one animation frame of the earlier game
OldFrame(sample) ==
    /\ frames > 0
    /\ animationFramePending' = TRUE
    /\ LET w == OldUpdate([World EXCEPT !.uncaught = FALSE], sample)
       IN /\ w.score <= MaxOldScore
          /\ SetWorld(w)
    /\ last' = [op |-> "update", from |-> gameState]
    /\ UNCHANGED <<started, isInitialized, loading, frames>>
    /\ UNCHANGED inputVars

\* a due timer of the earlier game fires
OldFireTimer ==
    /\ \E i \in Due(timers) :
          SetWorld(OldResetCallback([World EXCEPT !.timers = Remove(@, i),
                                                 !.uncaught = FALSE]))
    /\ last' = [op |-> "OLDRESET", from |-> gameState]
    /\ UNCHANGED <<started, isInitialized, loading, frames, animationFramePending>>
    /\ UNCHANGED inputVars

NextOld ==
    \/ \E s \in OldSamples : OldFrame(s)
    \/ TimePasses
    \/ OldFireTimer

SpecOld == InitOld /\ [][NextOld]_vars

\* the shot cycle of a game on which Game.init and Game.dispose are called
\* at any moment: a dispose that follows two loader callbacks cancels one
\* of the two update loops, and the other goes on ticking on a game whose
\* ball and hoop are null, or, once a later loader callback has run on the
\* null scene, on a game with a ball and no hoop. What a physics step
\* reports here: the ball falling through the rim centre, or at rest
MissingSamples ==
    { [pos |-> V3(0, 3050, -5000),  vel |-> V3(0, -2000, 0)],
      [pos |-> V3(0, 500, -2000),   vel |-> V3(0, 0, 0)] }

NextMissing ==
    \/ Start
    \/ InitCallWithin(MaxLoads)
    \/ \E s \in MissingSamples, sceneRequired \in BOOLEAN : InitPhysics(s, sceneRequired)
    \/ \E f \in FairForces : Swipe(f, FALSE)
    \/ \E s \in MissingSamples : Frame(s)
    \/ Dispose
    \/ TimePasses
    \/ FireTimer

SpecMissing == Init /\ [][NextMissing]_vars

----------------------------------------------------------------------------
(* Properties *)

ResetTimers == { i \in DOMAIN timers : timers[i].kind \in {"SCORED", "RESET"} }

\* C1: every step that takes gameState out of SHOOTING takes it to SCORED
\* or RESET, never directly to IDLE or AIMING.
C1_ShootingLeavesToScoredOrReset ==
    [][gameState = "SHOOTING" /\ gameState' # "SHOOTING"
         => gameState' \in {"SCORED", "RESET"}]_vars

\* C2: whenever pendingReset is true it is later false again, with the game
\* IDLE and the ball's body back at the origin.
C2_PendingResetClears ==
    pendingReset ~> (~pendingReset /\ gameState = "IDLE"
                     /\ basketball.bodyPosition = originPosition)

\* C3: a deferred reset callback repositions the ball and sets IDLE only if
\* gameState is still the state it was scheduled in (SCORED for the score
\* timer, RESET for the miss timer).
C3_CallbacksRevalidate ==
    [][/\ (last'.op = "SCORED" /\ gameState # "SCORED")
            => (basketball' = basketball /\ gameState' = gameState)
       /\ (last'.op = "RESET" /\ gameState # "RESET")
            => (basketball' = basketball /\ gameState' = gameState)]_vars

\* C4: at most one reset callback (SCORED timer or RESET delay) is scheduled
\* and not yet fired.
C4_AtMostOneResetTimer == Cardinality(ResetTimers) <= 1

\* C4 witness: a second shot is in flight and has been through a frame while
\* the previous shot's reset callback is still outstanding.
C4_Witness ==
    /\ gameState = "SHOOTING"
    /\ pendingReset
    /\ Cardinality(ResetTimers) = 1
    /\ last.op = "update"
    /\ last.from = "SHOOTING"

\* the guard checkForBasket and checkBallState share: the shot is looked at
ChecksRun(w) == w.gameState = "SHOOTING" /\ w.basketball.exists /\ ~w.pendingReset

\* C5: when repositioning the ball raises inside a reset callback, the
\* callback still returns with pendingReset false, so that a committed
\* gesture then leads to a shot the per-frame checks look at.
C5_ThrowClearsPending ==
    [][last'.op = "throw"
         => /\ ~pendingReset'
            /\ \A f \in SwipeForces : ChecksRun(HandleSwipe(World', f, FALSE))]_vars

\* C5 witness: after the score timer's reset raised, the game is still SCORED
\* with nothing pending, and a commit from there has started a shot.
C5_Witness ==
    /\ last.op = "commit"
    /\ last.from = "SCORED"
    /\ gameState = "SHOOTING"
    /\ ~pendingReset
    /\ ResetTimers = {}

Entered(state) == gameState # state /\ gameState' = state

\* C6: a step into SCORED adds exactly 1 to score and to streak, and no other
\* step changes score or streak, except the streak reset on entering RESET.
C6_ScoredIncrements ==
    [][/\ Entered("SCORED") => (score' = score + 1 /\ streak' = streak + 1)
       /\ (score' # score \/ streak' # streak)
            => \/ Entered("SCORED")
               \/ Entered("RESET") /\ score' = score /\ streak' = 0]_vars

\* C6 witness: a frame has just scored the second basket in a row.
C6_Witness ==
    /\ last.op = "update"
    /\ last.from = "SHOOTING"
    /\ gameState = "SCORED"
    /\ score = 2
    /\ streak = 2

\* C7: a step into RESET sets streak to 0 and leaves score and highScore alone.
C7_ResetClearsStreak ==
    [][Entered("RESET")
         => (streak' = 0 /\ score' = score /\ highScore' = highScore)]_vars

\* C7 witness: a frame has just ended a shot as a miss after an earlier basket.
C7_Witness ==
    /\ last.op = "update"
    /\ last.from = "SHOOTING"
    /\ gameState = "RESET"
    /\ score >= 1
    /\ streak = 0

\* C8 as stated: IDLE becomes SHOOTING only by a committed swipe.
C8_OnlyCommitShoots ==
    [][gameState = "IDLE" /\ gameState' = "SHOOTING" => last'.op = "commit"]_vars

\* C8 amended: IDLE becomes SHOOTING only by a committed swipe or by
\* testShot's delayed callback; no preview, frame, reset callback or
\* testShot call does it.
C8_OnlyCommitOrTestShotShoots ==
    [][gameState = "IDLE" /\ gameState' = "SHOOTING"
         => last'.op \in {"commit", "TEST"}]_vars

\* C8 witness: testShot's delayed callback has moved an IDLE game to SHOOTING.
C8_Witness ==
    /\ last.op = "TEST"
    /\ last.from = "IDLE"
    /\ gameState = "SHOOTING"

\* C9: a release within minSwipeDistance of the press never commits.
C9_TapNeverCommits ==
    (lastInput.event \in {"mouseup", "touchend"}
        /\ ~IsSwipe(startPoint, lastInput.point))
      => lastInput.call.kind # "commit"

\* C10: an onSwipe call is computed from an endPoint written during the
\* gesture it belongs to.
C10_GestureUsesOwnPoints ==
    lastInput.call.kind # "none" => endFresh

\* C11: for every start point, end point and positive strength the force
\* calculateForce returns has x in [-strength, strength], y in
\* [0, 2*strength] and z in [-2*strength, 0].
C11_ForceWithinClamp ==
    lastInput.event = "calculateForce"
      => LET f == lastInput.call.force
         IN /\ -1000 * strength <= f.x /\ f.x <= 1000 * strength
            /\ 0 <= f.y /\ f.y <= 2000 * strength
            /\ -2000 * strength <= f.z /\ f.z <= 0

\* C11 witness: a downward and far sideways drag, whose raw x and y both lie
\* outside the ranges, has been clamped to the x limit and to y = 0.
C11_Witness ==
    /\ lastInput.event = "calculateForce"
    /\ (startPoint.x - endPoint.x) * 10 * strength > 1000 * strength
    /\ startPoint.y < endPoint.y
    /\ lastInput.call.force = V3(1000 * strength, 0, -1000 * strength)

\* C12: isSwiping is false after every mouseup and touchend, whether or not
\* the threshold was met; onSwipe is called only by an event that arrives
\* while isSwiping is true, so a move or release with no press since the
\* last release calls nothing; and a press is followed by at most one commit
\* callback before the next press.
C12_GestureEndsOnce ==
    [][/\ lastInput'.event \in {"mouseup", "touchend"} => ~isSwiping'
       /\ lastInput'.call.kind # "none" => isSwiping
       /\ commits' <= 1]_vars

\* C12 witness: after a gesture has committed, a further release arrives
\* before any new press and calls nothing.
C12_Witness ==
    /\ lastInput.event \in {"mouseup", "touchend"}
    /\ lastInput.call.kind = "none"
    /\ commits = 1
    /\ ~isSwiping

\* the game has been through Game.dispose
Disposed == started /\ ~renderer

\* C13: a deferred callback (SCORED timer, RESET delay, testShot timer) that
\* fires after Game.dispose raises no uncaught exception and leaves
\* gameState, pendingReset, score and streak as they were.
C13_StaleCallbacksNoOp ==
    [][Disposed /\ last'.op \in {"SCORED", "RESET", "TEST"}
         => /\ ~uncaught'
            /\ UNCHANGED <<gameState, pendingReset, score, streak>>]_vars

\* world position of the trigger zone's centre
TriggerCentre == Add3(hoopPosition, V3(0, 0, triggerOffsetY))

\* the basket predicate as C14 words it: horizontal (x, z) distance from the
\* vertical axis through the rim centre, vertical (y) offset from the zone
HorizontalVerticalTest(p) ==
    /\ (p.x - hoopPosition.x) * (p.x - hoopPosition.x)
         + (p.z - hoopPosition.z) * (p.z - hoopPosition.z)
           < TriggerRadius * TriggerRadius
    /\ Abs(p.y - TriggerCentre.y) < triggerHalfHeight

\* C14: checkBasket is true exactly when the ball's horizontal (world x, z)
\* distance from the vertical axis through the rim centre is below
\* rimRadius * 0.8 and its vertical (world y) offset from the trigger zone
\* is below the half-height 0.15.
C14_BasketIsHorizontalDisc ==
    basketball.exists
      => (CheckBasket(basketball.pos) <=> HorizontalVerticalTest(basketball.pos))

\* C15: checkBasket is true at the rim centre, and false at the rim's height
\* for a ball further than rimRadius * 0.8 from the rim centre in any
\* horizontal direction.
C15_CentreInOutsideOut ==
    /\ CheckBasket(hoopPosition)
    /\ (/\ basketball.exists
        /\ basketball.pos.y = hoopPosition.y
        /\ (basketball.pos.x - hoopPosition.x) * (basketball.pos.x - hoopPosition.x)
             + (basketball.pos.z - hoopPosition.z) * (basketball.pos.z - hoopPosition.z)
               > TriggerRadius * TriggerRadius)
         => ~CheckBasket(basketball.pos)

\* C16: score changes only in a frame that starts in SHOOTING and in which
\* the ball's velocity.y is strictly negative and checkBasket holds for its
\* position, and then by exactly 1; a frame with the ball inside the trigger
\* zone and velocity.y >= 0 leaves score as it was.
C16_ScoreOnlyFallingThroughHoop ==
    [][/\ score' # score
            => /\ last'.op = "update"
               /\ gameState = "SHOOTING"
               /\ basketball'.vel.y < 0
               /\ CheckBasket(basketball'.pos)
               /\ score' = score + 1
       /\ (last'.op = "update" /\ CheckBasket(basketball'.pos)
             /\ basketball'.vel.y >= 0)
            => score' = score]_vars

\* C16 witness: after one basket, a frame of the next shot has found the
\* ball inside the trigger zone with velocity.y = 0; the shot goes on, with
\* the checks still watching it, and the score is still 1.
C16_Witness ==
    /\ last.op = "update"
    /\ last.from = "SHOOTING"
    /\ CheckBasket(basketball.pos)
    /\ basketball.vel.y = 0
    /\ gameState = "SHOOTING"
    /\ ~pendingReset
    /\ score = 1

\* C17: a frame that starts in SHOOTING and finds the ball with negative
\* velocity.y at a position where checkBasket holds ends in SCORED.
C17_FallingThroughHoopScores ==
    [][(/\ last'.op = "update"
        /\ gameState = "SHOOTING"
        /\ basketball'.exists
        /\ basketball'.vel.y < 0
        /\ CheckBasket(basketball'.pos))
         => gameState' = "SCORED"]_vars

\* C18: a frame that starts in SHOOTING with no reset pending and scores no
\* basket ends in RESET exactly when |position.x| > 10, |position.z| > 10,
\* position.y < -5, speed < 0.1 or now - shotStartTime > 2000 ms; entering
\* RESET schedules the reset resetDelay ahead, and when that delay is over
\* the callback leaves the ball, as getPosition returns it, at (0, 1.5, 2)
\* and the game IDLE.
C18_ResetIffStopCondition ==
    [][/\ (/\ last'.op = "update"
            /\ gameState = "SHOOTING"
            /\ ~pendingReset
            /\ gameState' # "SCORED")
             => (gameState' = "RESET"
                   <=> \/ Abs(basketball'.pos.x) > 10000
                       \/ Abs(basketball'.pos.z) > 10000
                       \/ basketball'.pos.y < -5000
                       \/ LengthSq(basketball'.vel) < 100 * 100
                       \/ shotAge > 2000)
       /\ Entered("RESET")
             => /\ timers' # <<>>
                /\ timers'[Len(timers')] = [kind |-> "RESET", left |-> resetDelay]
       /\ (last'.op = "RESET" /\ gameState = "RESET")
             => /\ GetPosition(basketball') = V3(0, 1500, 2000)
                /\ gameState' = "IDLE"]_vars

\* C19: score and highScore never decrease; after every basket highScore is
\* at least score; a basket that takes score above highScore writes the new
\* highScore to local storage; and what saveHighScore wrote, loadHighScore
\* reads back as the same integer.
C19_ScoresMonotonicAndStored ==
    [][/\ score' >= score
       /\ highScore' >= highScore
       /\ score' # score
            => /\ highScore' >= score'
               /\ score' > highScore
                    => /\ highScore' = score'
                       /\ storedHighScore' = SaveHighScore(highScore')
       /\ storedHighScore' # <<>>
            => LoadHighScore(storedHighScore') = highScore']_vars

\* C19 witness: the tenth basket of a session has beaten a stored high score
\* of 9, and the two-digit value written reads back as 10.
C19_Witness ==
    /\ last.op = "update"
    /\ gameState = "SCORED"
    /\ score = 10
    /\ highScore = 10
    /\ Len(storedHighScore) = 2
    /\ LoadHighScore(storedHighScore) = 10

\* C20: after reset(p), and again after a second reset(p) in a row, the
\* ball's position, as getPosition returns it, is p and its linear and
\* angular velocity are zero, the second call leaving the ball as the first
\* left it; for both Basketball classes.
C20_ResetIdempotent ==
    [][last'.op = "reset"
         => /\ GetPosition(basketball') = last'.position
            /\ basketball'.vel = Zero3
            /\ basketball'.angVel = Zero3
            /\ last'.inARow = 2 => basketball' = basketball]_vars

\* C21: reset() with no position puts the ball at the default origin it was
\* constructed with, whatever positions earlier reset(p) calls were given.
C21_DefaultResetGoesToOrigin ==
    [][last'.op = "resetDefault" => GetPosition(basketball') = originPosition]_vars

\* C22: a commit received while gameState is SHOOTING applies no force and
\* leaves gameState, shotStartTime, score, streak and pendingReset as they
\* were; and a launch force (from a commit or from testShot's callback) is
\* applied only to a ball that has had none since it was last repositioned.
C22_OneForcePerRepositioning ==
    [][/\ (last'.op = "commit" /\ gameState = "SHOOTING")
            => UNCHANGED <<gameState, shotAge, score, streak, pendingReset,
                           basketball>>
       /\ (last'.op \in {"commit", "TEST"}
             /\ basketball'.impulse # basketball.impulse)
            => ~basketball.launched]_vars

\* position of a call in the tick
CallIndex(name) == CHOOSE i \in DOMAIN UpdateCalls : UpdateCalls[i] = name

\* C23: in every tick the physics step comes before checkForBasket and
\* checkBallState, and both come before the render call; so a tick of a
\* watched shot scores exactly when the position and velocity that tick's
\* physics step produced make a basket, and leaves the shot going only if
\* that velocity is not a stopped ball's.
C23_PhysicsThenChecksThenRender ==
    [][/\ CallIndex("physics.update") < CallIndex("checkForBasket")
       /\ CallIndex("checkForBasket") < CallIndex("checkBallState")
       /\ CallIndex("checkBallState") < CallIndex("render")
       /\ (last'.op = "update" /\ gameState = "SHOOTING" /\ ~pendingReset)
            => /\ gameState' = "SCORED"
                    <=> (basketball'.vel.y < 0 /\ CheckBasket(basketball'.pos))
               /\ gameState' = "SHOOTING"
                    => LengthSq(basketball'.vel) >= 100 * 100]_vars

\* C23 witness: the ball, launched from rest at the origin, is found falling
\* through the rim centre by the first tick of the shot and is scored in
\* that tick.
C23_Witness ==
    /\ last.op = "update"
    /\ last.from = "SHOOTING"
    /\ gameState = "SCORED"
    /\ score = 1
    /\ basketball.pos = hoopPosition
    /\ basketball.vel.y < 0
    /\ shotAge = 0

\* the velocity the k-th step of the preview moves the point by: the force
\* after k - 1 additions of gravity * 0.1
StepVelocity(force, k) == V3(force.x, force.y + (k - 1) * (-980), force.z)

\* C24: updateTrajectoryLine writes exactly 20 points: the first is the
\* start position; each computed point after it is the one before advanced
\* by one explicit Euler step of 0.1 s under gravity -9.8 on y; computing
\* stops after the first step whose new y is below 0; every slot after the
\* computed points holds (0, 0, 0).
C24_TrajectoryTwentyPoints ==
    last.op = "updateTrajectoryLine"
      => LET pts == last.positions
         IN /\ Len(pts) = 20
            /\ pts[1] = V3(10 * last.start.x, 10 * last.start.y, 10 * last.start.z)
            /\ \E n \in 1..20 :
                  /\ \A k \in 2..n :
                        /\ pts[k] = Add3(pts[k - 1], StepVelocity(last.force, k - 1))
                        /\ pts[k].y >= 0
                  /\ n < 20 => Add3(pts[n], StepVelocity(last.force, n)).y < 0
                  /\ \A k \in (n + 1)..20 : pts[k] = Zero3

\* C24 witness: a preview from the origin whose arc comes down below the
\* ground after some steps: computed points, then filled slots.
C24_Witness ==
    /\ last.op = "updateTrajectoryLine"
    /\ last.start = originPosition
    /\ last.positions[5].y > 10 * originPosition.y
    /\ last.positions[5] # Zero3
    /\ last.positions[20] = Zero3

\* C25: an accepted commit (state other than SHOOTING, ball present) applies
\* to the ball the force (0.7 * raw.x - 0.1 * ball.x, 1.8 * raw.y,
\* raw.z * distance(ball, hoop) / 5), up to the rounding of one unit per
\* term, and enters SHOOTING; for the ball at (0, 1.5, 2), strength 4 and
\* the swipe (100, 500) -> (100, 300) in IDLE the applied force has x = 0,
\* y > 0 and |y| > |z|
C25_CommitAppliesAdjustedForce ==
    [][(last'.op = "commit" /\ gameState # "SHOOTING" /\ basketball.exists)
         => LET raw == last'.force
                p == basketball.pos
                f == Sub3(basketball'.impulse, basketball.impulse)
                d == DistanceTo(p, V3(0, 3050, -5000))
            IN /\ Abs(10 * f.x - (7 * raw.x - p.x)) < 20
               /\ Abs(10 * f.y - 18 * raw.y) < 10
               /\ Abs(5000 * f.z - raw.z * d) < 5000
               /\ gameState' = "SHOOTING"
               /\ (/\ gameState = "IDLE"
                   /\ p = V3(0, 1500, 2000)
                   /\ raw = CalculateForce(V2(100, 500), V2(100, 300), 4))
                    => (f.x = 0 /\ f.y > 0 /\ Abs(f.y) > Abs(f.z))]_vars

\* the scenario's commit has just been accepted in IDLE: the ball, still at
\* the origin, carries the adjusted force
C25_Witness ==
    /\ last.op = "commit"
    /\ last.from = "IDLE"
    /\ last.force = CalculateForce(V2(100, 500), V2(100, 300), 4)
    /\ gameState = "SHOOTING"
    /\ basketball.pos = V3(0, 1500, 2000)
    /\ basketball.impulse.x = 0
    /\ basketball.impulse.y = 14400
    /\ basketball.impulse.z < -5000

\* C26: a tick in which now - shotStartTime exceeds maxShotTime (2000 ms)
\* never ends with gameState still SHOOTING, however the shot was started
\* and whatever arrived while the previous reset was pending
C26_ShotTimeBounded ==
    (last.op = "update" /\ shotAge > 2000) => gameState # "SHOOTING"

\* C27: every entry into SHOOTING records shotStartTime as the time of that
\* entry, so the shot's age is 0 when it starts, for the delayed callback of
\* testShot as for a committed swipe
C27_ShootingRecordsStartTime ==
    [][Entered("SHOOTING") => shotAge' = 0]_vars

\* C28: a preview callback never applies force to the ball and leaves score,
\* streak, highScore, pendingReset and shotStartTime unchanged; with the
\* ball in place and a state other than SHOOTING it sets gameState to AIMING
\* and shows the updated trajectory line, in SHOOTING or with no ball yet it
\* changes nothing at all
C28_PreviewOnlyAims ==
    [][last'.op = "preview"
         => /\ basketball' = basketball
            /\ UNCHANGED <<score, streak, highScore, storedHighScore, pendingReset,
                           shotAge, timers>>
            /\ IF gameState = "SHOOTING" \/ ~basketball.exists
               THEN UNCHANGED gameVars
               ELSE gameState' = "AIMING" /\ trajectoryVisible']_vars

\* a preview arrived while the reset after a basket was pending: the game
\* is aiming, the line shows, and the basket's bookkeeping is as it was
C28_Witness ==
    /\ last.op = "preview"
    /\ last.from = "SCORED"
    /\ gameState = "AIMING"
    /\ trajectoryVisible
    /\ pendingReset
    /\ score = 1
    /\ streak = 1
    /\ Len(timers) = 1

ResetConditionHolds ==
    \/ Abs(basketball'.pos.x) > 10000
    \/ Abs(basketball'.pos.z) > 10000
    \/ basketball'.pos.y < -5000
    \/ LengthSq(basketball'.vel) < 100 * 100
    \/ shotAge > 2000

\* C30: at most one of the two per-tick checks fires in a tick, so a tick
\* schedules at most one reset and never both scores and resets the streak;
\* when the basket condition and a reset condition hold in the same tick the
\* tick ends in SCORED with the streak incremented and one reset scheduled,
\* the one of the basket
C30_AtMostOneCheckFires ==
    [][last'.op = "update"
         => /\ Len(timers') <= Len(timers) + 1
            /\ ~(score' # score /\ gameState' = "RESET")
            /\ (/\ gameState = "SHOOTING"
                /\ ~pendingReset
                /\ basketball'.vel.y < 0
                /\ CheckBasket(basketball'.pos)
                /\ ResetConditionHolds)
                 => /\ gameState' = "SCORED"
                    /\ score' = score + 1
                    /\ streak' = streak + 1
                    /\ pendingReset'
                    /\ timers' = Append(timers, [kind |-> "SCORED", left |-> 800])]_vars

\* a shot older than maxShotTime fell through the hoop in the tick just
\* run: it counts as a basket
C30_Witness ==
    /\ last.op = "update"
    /\ last.from = "SHOOTING"
    /\ shotAge > 2000
    /\ CheckBasket(basketball.pos)
    /\ basketball.vel.y < 0
    /\ gameState = "SCORED"
    /\ streak = 1
    /\ timers = <<[kind |-> "SCORED", left |-> 800]>>

\* C31: pendingReset is true exactly when gameState is SCORED or RESET
C31_PendingIffScoredOrReset ==
    pendingReset <=> gameState \in {"SCORED", "RESET"}

\* C32: the streak is never negative and never above the score
C32_StreakWithinScore ==
    0 <= streak /\ streak <= score

\* a basket has just been made after a miss that followed earlier baskets:
\* the streak has restarted below the score
C32_Witness ==
    /\ last.op = "update"
    /\ gameState = "SCORED"
    /\ score = 3
    /\ streak = 1

\* C33: the game is initialised at most once: initPhysics, which builds the
\* physics world, the ball and the hoop and starts the update loop, only
\* ever runs on a game not yet initialised, and at most one loop runs
C33_InitAtMostOnce ==
    [][/\ last'.op = "initPhysics" => (~isInitialized /\ frames = 0)
       /\ frames' <= 1]_vars

\* C34: the trajectory preview line is visible only while gameState is
\* AIMING; in IDLE, SHOOTING, SCORED and RESET it is hidden
C34_LineVisibleOnlyAiming ==
    trajectoryVisible => gameState = "AIMING"

\* the ball is in the trigger zone of the earlier game's hoop, falling
InZoneFalling(b) == b.vel.y < 0 /\ OldCheckBasket(b.pos)

\* C35: in the earlier game loop a ball that stays inside the trigger zone
\* with negative velocity.y over consecutive ticks is counted once: a tick
\* that finds it there right after a tick that already did adds nothing to
\* the score and schedules no further reset
C35_OnePointPerPass ==
    [][(/\ last.op = "update"
        /\ last'.op = "update"
        /\ InZoneFalling(basketball)
        /\ InZoneFalling(basketball'))
         => UNCHANGED <<score, timers>>]_vars

====
